---- MODULE Spec2Model ----
(***************************************************************************)
(* Credential-rotation orchestrator: the rotate-credential edge function,  *)
(* the scheduled-rotation sweep, the credentials / rotation_logs tables    *)
(* with the next-rotation trigger, and the Terraform Cloud variable set.   *)
(*                                                                         *)
(* Nullable columns and optional values are sequences of length 0 or 1.    *)
(* Time is an integer clock.  It moves on by one when a handler has read   *)
(* new Date() for the credentials update, and by a day between requests;   *)
(* the other timestamps are read at the current value.  A request that     *)
(* answers with an error has changed nothing at the service it was sent    *)
(* to.                                                                     *)
(***************************************************************************)
EXTENDS Integers, Sequences, FiniteSets, TLC

\* ------------------------------------------------------------------ bounds
\* rotate-credential invocations in one behaviour
MaxAttempts == 2
\* scheduled-rotation invocations in one behaviour
MaxSweeps == 1
\* environment events in one behaviour: external calls (database, control plane)
\* answering with an error, administrative writes to credentials, days passing
MaxEvents == 2
\* administrative writes to credentials in one behaviour
MaxEdits == 1

\* clock units in ' days' of the trigger's interval arithmetic
Day == 100

Null == <<>>
Some(x) == <<x>>

CredIds == {"c1", "c2"}
CredTypes == {"artifactory_token", "service_user_password", "ldap_password", "ssl_certificate"}
\* credential types offered to the insert form in the model
FormTypes == {"artifactory_token"}
Intervals == {1, 2}
\* rotation_interval_days offered to the insert form in the model
FormIntervals == {2}
\* secret_managers rows, in the order the select returns them
Managers == <<"aws_secrets_manager", "hashicorp_vault", "azure_key_vault">>
\* values the random generators may return
Secrets == {"s1", "s2"}
\* TFC_WORKSPACES settings: unset, or a comma-separated string held as the list of
\* its names (the empty string is the empty list)
WorkspaceSettings == {<<>>, <<<<>>>>, <<<<"ws1", "ws2">>>>}
\* the names a run can be requested for
WorkspaceNames == {"", "ws1", "ws2"}
Slots == 1..MaxAttempts

VARIABLES
    clock,            \* the wall clock
    day,              \* days passed so far
    credentials,      \* public.credentials: id -> Null or Some(row)
    rotation_logs,    \* public.rotation_logs: sequence of rows, id = index
    secret_managers,  \* public.secret_managers: type -> is_active
    stores,           \* what storeInSecretManager handed to each manager: type -> path -> Null or Some(secret)
    env,              \* Deno.env of rotate-credential: TFC settings
    tfcVars,          \* the variable set: sequence of [key, value, sensitive], id = index
    tfcRuns,          \* runs created: workspace name -> number of runs
    att,              \* rotate-credential invocations: slot -> handler state
    nAtt,             \* slots used
    sweep,            \* the scheduled-rotation invocation
    nSweeps,
    nEdits,           \* administrative writes so far
    nFaults,          \* external calls that have failed so far
    call              \* a library function under evaluation: its input, position and result

vars == <<clock, day, credentials, rotation_logs, secret_managers, stores, env,
          tfcVars, tfcRuns, att, nAtt, sweep, nSweeps, nEdits, nFaults, call>>

\* ------------------------------------------------------- schema and trigger

\* variant: the interval is not added
calculate_next_rotation_date_NoInterval(last_rotated, interval_days, now) ==
    IF last_rotated = Null
    THEN now
    ELSE last_rotated[1]

\* variant: the next date is always counted from NOW()
calculate_next_rotation_date_FromNow(last_rotated, interval_days, now) ==
    now + interval_days * Day

calculate_next_rotation_date(last_rotated, interval_days, now) ==
    IF last_rotated = Null
    THEN now + interval_days * Day
    ELSE last_rotated[1] + interval_days * Day

\* BEFORE INSERT OR UPDATE ON credentials FOR EACH ROW
update_next_rotation_trigger(new_row, now) ==
    [new_row EXCEPT !.next_rotation_at =
        Some(calculate_next_rotation_date(new_row.last_rotated_at, new_row.rotation_interval_days, now))]

\* a credentials row as the INSERT builds it, before the trigger
NewCredentialRow(id, type, interval, active, now) ==
    [ id |-> id, type |-> type, external_secret_path |-> id,
      rotation_interval_days |-> interval, is_active |-> active,
      created_at |-> now, last_rotated_at |-> Null, next_rotation_at |-> Null ]

Exists(c) == credentials[c] # Null
Row(c) == credentials[c][1]

\* ----------------------------------------------------- rotate-credential

\* variable keys are tuples: <<name>> or <<map name, credential name>>
getVariableKeyForCredential(credential) ==
    CASE credential.type = "artifactory_token" -> Some(<<"artifactory_access_token">>)
      [] credential.type = "service_user_password" -> Some(<<"service_user_passwords", credential.id>>)
      [] credential.type = "ldap_password" -> Some(<<"ldap_manager_password">>)
      [] credential.type = "ssl_certificate" -> Some(<<"client_cert_path">>)
      [] OTHER -> Null

\* rotateCredential's switch: the types that have a rotate* function
SupportedTypes == {"artifactory_token", "service_user_password", "ldap_password", "ssl_certificate"}

\* SHA-256 hex digest: injective on the modelled values
hashSecret(secret) == <<"sha256", secret>>

\* no library function is being evaluated apart from the handlers
NoCall == [fn |-> "none"]

IdleAttempt ==
    [ pc |-> "idle", credentialId |-> "c1", trigger |-> "manual", caller |-> "none",
      logId |-> 0, credential |-> Null, managers |-> <<>>, newSecret |-> Null,
      existingVar |-> 0, runIdx |-> 1, runIds |-> <<>>, ts |-> 0,
      error |-> Null, response |-> Null, trace |-> <<>> ]

\* one entry of a handler's record of the requests it has issued
Ev(e, m, v) == [e |-> e, m |-> m, v |-> v]

\* throw inside the inner try: control goes to catch (rotationError)
Throw(a, step, msg) ==
    [a EXCEPT !.pc = "failLog", !.error = Some([at |-> step, message |-> msg])]

\* the outer catch: the 500 response carrying error.message
ErrorResponse(a, step, msg) ==
    [a EXCEPT !.pc = "done", !.error = Some([at |-> step, message |-> msg]),
              !.response = Some([ok |-> FALSE, logId |-> 0, error |-> msg])]

\* variant: the 200 body carries the new secret in its message
SuccessResponse_EchoesSecret(a) ==
    [a EXCEPT !.pc = "done",
              !.response = Some([ok |-> TRUE, logId |-> a.logId, error |-> a.newSecret[1]])]

\* the hash in the body of the 200 response: the body is success, message and logId
ResponseSecretHash(a) == Null

\* the 200 response carrying logEntry.id
SuccessResponse(a) ==
    [a EXCEPT !.pc = "done",
              !.response = Some([ok |-> TRUE, logId |-> a.logId, error |-> "-"])]

\* variant: the insert error is not thrown and the handler goes on to load the credential
OnLogInsertError_Continues(a) ==
    [a EXCEPT !.pc = "load",
              !.error = Some([at |-> "open", message |-> "Failed to create rotation log"])]

\* if (logError) throw: outside the inner try, so no ledger update follows
OnLogInsertError(a) == ErrorResponse(a, "open", "Failed to create rotation log")

\* variant: the closing update's error is thrown to the inner catch
OnLogUpdateError_Throws(a) == Throw(a, "closeLog", "Failed to update rotation log")

\* if (logUpdateError) console.error(...): the handler goes on to the 200 response
OnLogUpdateError(a) == SuccessResponse(a)

\* variant: the failure update selects by credential_id instead of by id
FailTargets_ByCredential(a) ==
    {i \in 1..Len(rotation_logs) : rotation_logs[i].credential_id = a.credentialId}

\* variant: the failure update's filter matches no row
FailTargets_None(a) == {}

\* .eq('id', logEntry.id) of the two closing updates
CloseTargets(a) == {a.logId}

FailTargets(a) == {a.logId}

\* the switch case of a manager type in storeInSecretManager: the call that would
\* store the secret is a comment and the case is a bare break, so what the manager
\* holds is what it held
storeCase(type, contents, path, secret) == contents

\* variant: the loop leaves after the first manager
storeInSecretManager_FirstOnly(managers) ==
    IF managers = <<>> THEN <<>> ELSE <<managers[1]>>

\* storeInSecretManager: the managers the loop visits, in order
storeInSecretManager(managers) == managers

\* variant: the guard reads the token alone
TfcSyncEnabled_TokenOnly(e, credential) ==
    /\ e.TFC_API_TOKEN
    /\ getVariableKeyForCredential(credential) # Null

\* if (tfcToken && tfcOrg && tfcVariableSetId) { ... if (variableKey) {
TfcSyncEnabled(e, credential) ==
    /\ e.TFC_API_TOKEN /\ e.TFC_ORGANIZATION /\ e.TFC_VARIABLE_SET_ID
    /\ getVariableKeyForCredential(credential) # Null

\* String.prototype.split(','): the empty string splits into one empty name
Split(names) == IF names = <<>> THEN <<"">> ELSE names

\* Deno.env.get('TFC_WORKSPACES')?.split(',') || []
TfcWorkspaces(e) ==
    IF e.TFC_WORKSPACES = Null THEN <<>> ELSE Split(e.TFC_WORKSPACES[1])

\* variant: the find never matches
FindVar_Never(varsData, key) == 0

\* existingVar = varsResponse.data.find(v => v.attributes.key === key): its id, 0 when none
FindVar(varsData, key) ==
    IF \E i \in 1..Len(varsData) : varsData[i].key = key
    THEN CHOOSE i \in 1..Len(varsData) :
            /\ varsData[i].key = key
            /\ \A j \in 1..(i - 1) : varsData[j].key # key
    ELSE 0

\* one more environment event fits the bound
EventAllowed == day + nEdits + nFaults < MaxEvents

\* an external call answers: with an error only while the event bound allows it
Outcome(ok) ==
    /\ ~ok => EventAllowed
    /\ nFaults' = IF ok THEN nFaults ELSE nFaults + 1

Log(a, e, m, v) == [a EXCEPT !.trace = Append(@, Ev(e, m, v))]

Range(f) == {f[i] : i \in DOMAIN f}

\* the handler builds the credentials update: last_rotated_at = new Date()
SendCredentialUpdate(a) == [a EXCEPT !.pc = "updCred", !.ts = clock]

\* The handler state a after a step of slot p.  A step is the answer to the request
\* in flight followed by the handler's code up to its next request; the clock moves
\* on when that code has read it for the credentials update.
Continue(p, a) ==
    /\ att' = [att EXCEPT ![p] = a]
    /\ clock' = IF a.pc = "updCred" THEN clock + 1 ELSE clock

\* a request reaches the function: req.json() gives credentialId and trigger
Invoke(p, c, trig, caller) ==
    /\ p = nAtt + 1
    /\ p \in Slots
    /\ nAtt' = p
    /\ att' = [att EXCEPT ![p] = [IdleAttempt EXCEPT !.pc = "open", !.credentialId = c,
                                                     !.trigger = trig, !.caller = caller]]

\* remaining rotate-credential calls of the running sweep
Reserved ==
    CASE sweep.pc = "loop" -> Len(sweep.due) - sweep.idx + 1
      [] sweep.pc \in {"await", "logFailure"} -> Len(sweep.due) - sweep.idx
      [] OTHER -> 0

\* CredentialDashboard.triggerRotation
TriggerRotation(c) ==
    /\ nAtt + Reserved < MaxAttempts
    /\ Invoke(nAtt + 1, c, "manual", "dashboard")
    /\ UNCHANGED <<call, clock, day, credentials, rotation_logs, secret_managers, stores,
                   env, tfcVars, tfcRuns, sweep, nSweeps, nEdits, nFaults>>

\* insert into rotation_logs (in_progress, started_at); the foreign key needs the credential row
OpenLog(p) ==
    LET a == att[p] IN
    /\ a.pc = "open"
    /\ \E ok \in BOOLEAN :
         /\ Outcome(ok)
         /\ IF ok /\ Exists(a.credentialId)
            THEN /\ rotation_logs' = Append(rotation_logs,
                       [ credential_id |-> a.credentialId, rotation_trigger |-> a.trigger,
                         status |-> "in_progress", started_at |-> clock,
                         completed_at |-> Null, error_message |-> Null,
                         new_secret_hash |-> Null, attempt |-> p ])
                 /\ Continue(p, Log([a EXCEPT !.pc = "load", !.logId = Len(rotation_logs) + 1],
                                    "open", "-", "-"))
            ELSE /\ UNCHANGED rotation_logs
                 /\ Continue(p, OnLogInsertError(a))
    /\ UNCHANGED <<call, day, credentials, secret_managers, stores, env, tfcVars, tfcRuns,
                   nAtt, sweep, nSweeps, nEdits>>

\* select * from credentials where id = credentialId, single()
LoadCredential(p) ==
    LET a == att[p] IN
    /\ a.pc = "load"
    /\ \E ok \in BOOLEAN :
         /\ Outcome(ok)
         /\ IF ok /\ Exists(a.credentialId)
            THEN Continue(p, Log([a EXCEPT !.pc = "rotate",
                                           !.credential = credentials[a.credentialId]],
                                 "load", "-", "-"))
            ELSE Continue(p, Throw(a, "load", "Credential not found"))
    /\ UNCHANGED <<call, day, credentials, rotation_logs, secret_managers, stores, env,
                   tfcVars, tfcRuns, nAtt, sweep, nSweeps, nEdits>>

\* select * from secret_managers where is_active
ActiveManagers == SelectSeq(Managers, LAMBDA m : secret_managers[m])

\* generateSecureToken / generateSecurePassword / generateCertificateFingerprint: any
\* value; the values are opaque, so the first one generated is called s1
Generated ==
    IF \A q \in Slots : att[q].newSecret = Null THEN {"s1"} ELSE Secrets

\* variant: the runs are triggered before the variable is written
AfterRotate_RunsFirst(a) ==
    IF TfcSyncEnabled(env, a.credential[1]) /\ Len(TfcWorkspaces(env)) > 0
    THEN [a EXCEPT !.pc = "runs", !.runIdx = 1]
    ELSE IF TfcSyncEnabled(env, a.credential[1])
    THEN [a EXCEPT !.pc = "tfcList"]
    ELSE SendCredentialUpdate(a)

\* the handler after rotateCredential returned: the TFC sync if configured and
\* mapped, else the credentials update
AfterRotate(a) ==
    IF TfcSyncEnabled(env, a.credential[1])
    THEN [a EXCEPT !.pc = "tfcList"]
    ELSE SendCredentialUpdate(a)

\* the secret managers are listed; then rotateCredential: generate,
\* storeInSecretManager, hashSecret
RotateCredential(p) ==
    LET a == att[p]
        cred == a.credential[1]
    IN
    /\ a.pc = "rotate"
    /\ \E ok \in BOOLEAN :
         /\ Outcome(ok)
         /\ IF ~ok
            THEN /\ UNCHANGED stores
                 /\ Continue(p, Throw(a, "listSM", "Failed to fetch secret managers"))
            ELSE IF cred.type \notin SupportedTypes
            THEN /\ UNCHANGED stores
                 /\ Continue(p, Throw([a EXCEPT !.managers = ActiveManagers], "rotate",
                                      "Unsupported credential type"))
            ELSE \E s \in Generated :
                   LET written == storeInSecretManager(ActiveManagers)
                       a1 == Log([a EXCEPT !.managers = ActiveManagers, !.newSecret = Some(s)],
                                 "generate", "-", s)
                       a2 == [a1 EXCEPT !.trace = @ \o [i \in 1..Len(written) |->
                                                          Ev("publish", written[i], s)]]
                   IN
                   /\ stores' = [m \in DOMAIN stores |->
                                   IF m \in Range(written)
                                   THEN [stores[m] EXCEPT ![cred.external_secret_path] = Some(s)]
                                   ELSE stores[m]]
                   /\ Continue(p, AfterRotate(a2))
    /\ UNCHANGED <<call, day, credentials, rotation_logs, secret_managers, env,
                   tfcVars, tfcRuns, nAtt, sweep, nSweeps, nEdits>>

\* updateVariableInSet: GET /varsets/{id}/relationships/vars and the find
TfcListVars(p) ==
    LET a == att[p]
        key == getVariableKeyForCredential(a.credential[1])[1]
    IN
    /\ a.pc = "tfcList"
    /\ \E ok \in BOOLEAN :
         /\ Outcome(ok)
         /\ IF ok
            THEN Continue(p, Log([a EXCEPT !.pc = "tfcWrite",
                                           !.existingVar = FindVar(tfcVars, key)],
                                 "tfc_list", "-", "-"))
            ELSE Continue(p, Throw(a, "tfcList", "TFC API Error"))
    /\ UNCHANGED <<call, day, credentials, rotation_logs, secret_managers, stores, env,
                   tfcVars, tfcRuns, nAtt, sweep, nSweeps, nEdits>>

\* the handler after updateVariableInSet returned: the runs if any workspace is
\* configured, else the credentials update
AfterVariableUpdate(a) ==
    IF Len(TfcWorkspaces(env)) > 0
    THEN [a EXCEPT !.pc = "runs", !.runIdx = 1]
    ELSE SendCredentialUpdate(a)

\* updateVariableInSet: PATCH the existing variable, or POST a new one
TfcWriteVar(p) ==
    LET a == att[p]
        key == getVariableKeyForCredential(a.credential[1])[1]
        value == a.newSecret[1]
    IN
    /\ a.pc = "tfcWrite"
    /\ \E ok \in BOOLEAN :
         /\ Outcome(ok)
         /\ IF ok
            THEN /\ tfcVars' = IF a.existingVar # 0
                               THEN [tfcVars EXCEPT ![a.existingVar] =
                                       [key |-> key, value |-> value, sensitive |-> TRUE]]
                               ELSE Append(tfcVars, [key |-> key, value |-> value, sensitive |-> TRUE])
                 /\ Continue(p, AfterVariableUpdate(
                                  Log(a, IF a.existingVar # 0 THEN "tfc_patch" ELSE "tfc_post",
                                      key, value)))
            ELSE /\ UNCHANGED tfcVars
                 /\ Continue(p, Throw(a, "tfcWrite", "TFC API Error"))
    /\ UNCHANGED <<call, day, credentials, rotation_logs, secret_managers, stores, env,
                   tfcRuns, nAtt, sweep, nSweeps, nEdits>>

\* what triggerWorkspaceRuns keeps of the failed requests: the catch only logs, and
\* the method returns the ids of the runs it created
CollectedRunFailures(a) == <<>>

\* the handler after one POST /runs: the next workspace, or the credentials update
AfterRun(a) ==
    IF a.runIdx < Len(TfcWorkspaces(env))
    THEN [a EXCEPT !.runIdx = @ + 1]
    ELSE SendCredentialUpdate(a)

\* triggerWorkspaceRuns: one POST /runs per workspace, a failure is caught and logged
TriggerWorkspaceRun(p) ==
    LET a == att[p]
        w == TfcWorkspaces(env)[a.runIdx]
    IN
    /\ a.pc = "runs"
    /\ \E ok \in BOOLEAN :
         /\ Outcome(ok)
         /\ IF ok
            THEN /\ tfcRuns' = [tfcRuns EXCEPT ![w] = @ + 1]
                 /\ Continue(p, AfterRun(Log([a EXCEPT !.runIds = Append(@, w)], "run", w, "-")))
            ELSE /\ UNCHANGED tfcRuns
                 /\ Continue(p, AfterRun(Log(a, "run_failed", w, "-")))
    /\ UNCHANGED <<call, day, credentials, rotation_logs, secret_managers, stores, env,
                   tfcVars, nAtt, sweep, nSweeps, nEdits>>

\* the row the UPDATE ... SET last_rotated_at = ts WHERE id = credentialId leaves,
\* trigger included
UpdatedCredential(row, ts, now) ==
    update_next_rotation_trigger([row EXCEPT !.last_rotated_at = Some(ts)], now)

\* the database executes the credentials update; an error is thrown to the inner catch
UpdateCredential(p) ==
    LET a == att[p]
        c == a.credentialId
    IN
    /\ a.pc = "updCred"
    /\ \E ok \in BOOLEAN :
         /\ Outcome(ok)
         /\ IF ok
            THEN /\ credentials' =
                      IF Exists(c)
                      THEN [credentials EXCEPT ![c] = Some(UpdatedCredential(Row(c), a.ts, clock))]
                      ELSE credentials
                 /\ att' = [att EXCEPT ![p] = Log([a EXCEPT !.pc = "closeLog"],
                                                  "cred_update", c, "-")]
            ELSE /\ UNCHANGED credentials
                 /\ att' = [att EXCEPT ![p] = Throw(a, "updCred", "Failed to update credential")]
    /\ UNCHANGED <<call, clock, day, rotation_logs, secret_managers, stores, env,
                   tfcVars, tfcRuns, nAtt, sweep, nSweeps, nEdits>>

\* a row that a cascade has deleted: ids are not reused, its place stays
Removed(row) == [row EXCEPT !.status = "deleted"]

\* the rows the table holds
LiveRows(logs) == {i \in 1..Len(logs) : logs[i].status # "deleted"}

\* update rotation_logs set status = completed, completed_at, new_secret_hash where id in ids
CompletedRows(logs, ids, now, hash) ==
    [i \in 1..Len(logs) |->
        IF i \in ids \cap LiveRows(logs)
        THEN [logs[i] EXCEPT !.status = "completed", !.completed_at = Some(now),
                             !.new_secret_hash = Some(hash)]
        ELSE logs[i]]

\* variant: the failed update without completed_at
FailedRows_NoCompletedAt(logs, ids, now, msg) ==
    [i \in 1..Len(logs) |->
        IF i \in ids \cap LiveRows(logs)
        THEN [logs[i] EXCEPT !.status = "failed", !.error_message = Some(msg)]
        ELSE logs[i]]

\* update rotation_logs set status = failed, completed_at, error_message where id in ids
FailedRows(logs, ids, now, msg) ==
    [i \in 1..Len(logs) |->
        IF i \in ids \cap LiveRows(logs)
        THEN [logs[i] EXCEPT !.status = "failed", !.completed_at = Some(now),
                             !.error_message = Some(msg)]
        ELSE logs[i]]

\* close the ledger entry as completed and answer 200; an update error is only logged
CloseLog(p) ==
    LET a == att[p] IN
    /\ a.pc = "closeLog"
    /\ \E ok \in BOOLEAN :
         /\ Outcome(ok)
         /\ IF ok
            THEN /\ rotation_logs' = CompletedRows(rotation_logs, CloseTargets(a), clock,
                                                   hashSecret(a.newSecret[1]))
                 /\ Continue(p, Log(SuccessResponse(a), "close", "-", "-"))
            ELSE /\ UNCHANGED rotation_logs
                 /\ Continue(p, OnLogUpdateError(a))
    /\ UNCHANGED <<call, day, credentials, secret_managers, stores, env, tfcVars, tfcRuns,
                   nAtt, sweep, nSweeps, nEdits>>

\* catch (rotationError): close the entry as failed (result unchecked), rethrow to the 500 response
FailLog(p) ==
    LET a == att[p] IN
    /\ a.pc = "failLog"
    /\ \E ok \in BOOLEAN :
         /\ Outcome(ok)
         /\ rotation_logs' =
               IF ok
               THEN FailedRows(rotation_logs, FailTargets(a), clock, a.error[1].message)
               ELSE rotation_logs
    /\ Continue(p, ErrorResponse(a, a.error[1].at, a.error[1].message))
    /\ UNCHANGED <<call, day, credentials, secret_managers, stores, env, tfcVars, tfcRuns,
                   nAtt, sweep, nSweeps, nEdits>>

Attempt(p) ==
    \/ OpenLog(p)
    \/ LoadCredential(p)
    \/ RotateCredential(p)
    \/ TfcListVars(p)
    \/ TfcWriteVar(p)
    \/ TriggerWorkspaceRun(p)
    \/ UpdateCredential(p)
    \/ CloseLog(p)
    \/ FailLog(p)

\* ------------------------------------------------------ scheduled-rotation

IdleSweep ==
    [ pc |-> "idle", due |-> <<>>, idx |-> 1, results |-> <<>>,
      cur |-> 0, response |-> Null ]

\* variant: the query without .eq('is_active', true)
DueSet_IgnoresActive(now) ==
    {c \in CredIds : /\ Exists(c)
                     /\ Row(c).next_rotation_at # Null
                     /\ Row(c).next_rotation_at[1] <= now}

\* .eq('is_active', true).lte('next_rotation_at', now)
DueSet(now) ==
    {c \in CredIds : /\ Exists(c)
                     /\ Row(c).is_active
                     /\ Row(c).next_rotation_at # Null
                     /\ Row(c).next_rotation_at[1] <= now}

\* the orders in which the select may return a set of rows
Orders(S) ==
    {s \in [1..Cardinality(S) -> S] : \A i, j \in 1..Cardinality(S) : s[i] = s[j] => i = j}

\* the sweep starts: now = new Date(), then the due-set query
SweepStart ==
    /\ sweep.pc = "idle"
    /\ nSweeps < MaxSweeps
    /\ nAtt + Cardinality(DueSet(clock)) <= MaxAttempts
    /\ nSweeps' = nSweeps + 1
    /\ \E ok \in BOOLEAN :
         /\ Outcome(ok)
         /\ IF ok
            THEN \E due \in Orders(DueSet(clock)) :
                   sweep' = [IdleSweep EXCEPT !.pc = "loop", !.due = due]
            ELSE sweep' = [IdleSweep EXCEPT !.pc = "done",
                               !.response = Some([success |-> FALSE, processed |-> 0,
                                                  error |-> "Failed to fetch credentials"])]
    /\ UNCHANGED <<call, clock, day, credentials, rotation_logs, secret_managers, stores, env,
                   tfcVars, tfcRuns, att, nAtt, nEdits>>

\* variant: the per-credential error leaves the loop for the outer catch
CatchRotationError_Aborts(s, c) ==
    [s EXCEPT !.pc = "done",
              !.response = Some([success |-> FALSE, processed |-> 0,
                                 error |-> "Rotation failed"])]

\* catch (rotationError) of the loop: the failure result is pushed, the failure
\* insert follows
CatchRotationError(s, c) ==
    [s EXCEPT !.pc = "logFailure",
              !.results = Append(@, [credentialId |-> c, success |-> FALSE,
                                     logId |-> 0, error |-> "Rotation failed"])]

\* variant: the failure row is written with status skipped
FailureLogRow_Skipped(c, now, p) ==
    [ credential_id |-> c, rotation_trigger |-> "scheduled",
      status |-> "skipped", started_at |-> now,
      completed_at |-> Some(now), error_message |-> Some("Rotation failed"),
      new_secret_hash |-> Null, attempt |-> p ]

\* the row of the failure insert; p is the call it is written for
FailureLogRow(c, now, p) ==
    [ credential_id |-> c, rotation_trigger |-> "scheduled",
      status |-> "failed", started_at |-> now,
      completed_at |-> Some(now), error_message |-> Some("Rotation failed"),
      new_secret_hash |-> Null, attempt |-> p ]

\* variant: the fetch is not awaited, the loop goes on to the next credential
SweepInvoke_NoAwait ==
    /\ sweep.pc = "loop"
    /\ sweep.idx <= Len(sweep.due)
    /\ Invoke(nAtt + 1, sweep.due[sweep.idx], "scheduled", "sweep")
    /\ sweep' = [sweep EXCEPT !.idx = @ + 1, !.cur = nAtt + 1]
    /\ UNCHANGED <<call, clock, day, credentials, rotation_logs, secret_managers, stores,
                   env, tfcVars, tfcRuns, nSweeps, nEdits, nFaults>>

\* fetch(.../functions/v1/rotate-credential) with trigger 'scheduled'
SweepInvoke ==
    /\ sweep.pc = "loop"
    /\ sweep.idx <= Len(sweep.due)
    /\ Invoke(nAtt + 1, sweep.due[sweep.idx], "scheduled", "sweep")
    /\ sweep' = [sweep EXCEPT !.pc = "await", !.cur = nAtt + 1]
    /\ UNCHANGED <<call, clock, day, credentials, rotation_logs, secret_managers, stores,
                   env, tfcVars, tfcRuns, nSweeps, nEdits, nFaults>>

\* the response arrives: a success result, or the catch block's failure result
SweepCollect ==
    LET a == att[sweep.cur]
        c == sweep.due[sweep.idx]
    IN
    /\ sweep.pc = "await"
    /\ a.pc = "done"
    /\ IF a.response[1].ok
       THEN sweep' = [sweep EXCEPT !.pc = "loop", !.idx = @ + 1,
                         !.results = Append(@, [credentialId |-> c, success |-> TRUE,
                                                logId |-> a.response[1].logId,
                                                error |-> "-"])]
       ELSE sweep' = CatchRotationError(sweep, c)
    /\ UNCHANGED <<call, clock, day, credentials, rotation_logs, secret_managers, stores,
                   env, tfcVars, tfcRuns, att, nAtt, nSweeps, nEdits, nFaults>>

\* catch block: insert a failed rotation_logs row (result unchecked)
SweepLogFailure ==
    LET c == sweep.due[sweep.idx] IN
    /\ sweep.pc = "logFailure"
    /\ \E ok \in BOOLEAN :
         /\ Outcome(ok)
         /\ rotation_logs' =
               IF ok /\ Exists(c)
               THEN Append(rotation_logs, FailureLogRow(c, clock, sweep.cur))
               ELSE rotation_logs
    /\ sweep' = [sweep EXCEPT !.pc = "loop", !.idx = @ + 1]
    /\ UNCHANGED <<call, clock, day, credentials, secret_managers, stores, env, tfcVars, tfcRuns,
                   att, nAtt, nSweeps, nEdits>>

\* the 200 response with the per-credential results
SweepFinish ==
    /\ sweep.pc = "loop"
    /\ sweep.idx > Len(sweep.due)
    /\ sweep' = [sweep EXCEPT !.pc = "done",
                    !.response = Some([success |-> TRUE, processed |-> Len(sweep.due),
                                       error |-> "-"])]
    /\ UNCHANGED <<call, clock, day, credentials, rotation_logs, secret_managers, stores,
                   env, tfcVars, tfcRuns, att, nAtt, nSweeps, nEdits, nFaults>>

\* ----------------------------------------------- administration and time

\* no request is being served
Quiescent ==
    /\ \A p \in Slots : att[p].pc \in {"idle", "done"}
    /\ sweep.pc \in {"idle", "done"}

\* CredentialForm.handleSubmit: insert into credentials, the trigger fills next_rotation_at
CreateCredential(c, type, interval, active) ==
    /\ ~Exists(c)
    /\ EventAllowed
    /\ nEdits < MaxEdits
    /\ Quiescent
    /\ nEdits' = nEdits + 1
    /\ credentials' = [credentials EXCEPT ![c] =
          Some(update_next_rotation_trigger(NewCredentialRow(c, type, interval, active, clock), clock))]
    /\ UNCHANGED <<call, clock, day, rotation_logs, secret_managers, stores, env, tfcVars, tfcRuns,
                   att, nAtt, sweep, nSweeps, nFaults>>

\* an UPDATE that sets is_active and rotation_interval_days (one of them to a new
\* value): the trigger runs on every update
UpdateCredentialRow(c, interval, active) ==
    /\ Exists(c)
    /\ EventAllowed
    /\ nEdits < MaxEdits
    /\ (interval # Row(c).rotation_interval_days) # (active # Row(c).is_active)
    /\ Quiescent
    /\ nEdits' = nEdits + 1
    /\ credentials' = [credentials EXCEPT ![c] =
          Some(update_next_rotation_trigger(
                 [Row(c) EXCEPT !.rotation_interval_days = interval, !.is_active = active],
                 clock))]
    /\ UNCHANGED <<call, clock, day, rotation_logs, secret_managers, stores, env, tfcVars, tfcRuns,
                   att, nAtt, sweep, nSweeps, nFaults>>

\* variant: the foreign key without ON DELETE CASCADE, not enforced
CascadeDelete_None(logs, c) == logs

\* credential_id REFERENCES credentials(id) ON DELETE CASCADE
CascadeDelete(logs, c) ==
    [i \in 1..Len(logs) |-> IF logs[i].credential_id = c THEN Removed(logs[i]) ELSE logs[i]]

\* DELETE FROM credentials WHERE id = c, at any moment (policy: FOR ALL USING (true))
DeleteCredential(c) ==
    /\ Exists(c)
    /\ EventAllowed
    /\ nEdits < MaxEdits
    /\ nEdits' = nEdits + 1
    /\ credentials' = [credentials EXCEPT ![c] = Null]
    /\ rotation_logs' = CascadeDelete(rotation_logs, c)
    /\ UNCHANGED <<call, clock, day, secret_managers, stores, env, tfcVars, tfcRuns,
                   att, nAtt, sweep, nSweeps, nFaults>>

\* a day passes between requests
Advance ==
    /\ EventAllowed
    /\ Quiescent
    /\ day' = day + 1
    /\ clock' = clock + Day
    /\ UNCHANGED <<call, credentials, rotation_logs, secret_managers, stores, env, tfcVars,
                   tfcRuns, att, nAtt, sweep, nSweeps, nEdits, nFaults>>

\* ------------------------------------------------------------ specification

\* a seed row, inserted at time 0; the system is observed from the moment the
\* seed rows of the model fall due
SeedCredential(c, type, interval) ==
    update_next_rotation_trigger(NewCredentialRow(c, type, interval, TRUE, 0), 0)

\* the credentials table at the start: the first seed row alone, or the first two
\* (both due at the start)
SeedSets ==
    { [c \in CredIds |-> IF c = "c1" THEN Some(SeedCredential("c1", "artifactory_token", 1)) ELSE Null],
      [c \in CredIds |-> IF c = "c1" THEN Some(SeedCredential("c1", "artifactory_token", 1))
                                      ELSE Some(SeedCredential("c2", "service_user_password", 1))] }

\* the settings the sync guard reads
TfcSettings == {"TFC_API_TOKEN", "TFC_ORGANIZATION", "TFC_VARIABLE_SET_ID"}

\* Deno.env of rotate-credential: the three settings present, or one of them
\* absent while workspaces are named
Environments ==
    {[TFC_API_TOKEN |-> TRUE, TFC_ORGANIZATION |-> TRUE, TFC_VARIABLE_SET_ID |-> TRUE,
      TFC_WORKSPACES |-> w] : w \in WorkspaceSettings}
        \cup {e \in [TFC_API_TOKEN : BOOLEAN, TFC_ORGANIZATION : BOOLEAN,
                     TFC_VARIABLE_SET_ID : BOOLEAN, TFC_WORKSPACES : {Some(<<"ws1", "ws2">>)}] :
                 Cardinality({k \in TfcSettings : e[k]}) = 2}

Init ==
    /\ clock = Day
    /\ day = 0
    /\ credentials \in SeedSets
    /\ rotation_logs = <<>>
    /\ secret_managers = [m \in Range(Managers) |-> m # "azure_key_vault"]
    /\ stores = [m \in Range(Managers) |-> [c \in CredIds |-> Null]]
    /\ env \in Environments
    /\ tfcVars = <<>>
    /\ tfcRuns = [w \in WorkspaceNames |-> 0]
    /\ att = [p \in Slots |-> IdleAttempt]
    /\ nAtt = 0
    /\ sweep = IdleSweep
    /\ nSweeps = 0
    /\ nEdits = 0
    /\ nFaults = 0
    /\ call = NoCall

Next ==
    \/ \E c \in CredIds : TriggerRotation(c)
    \/ \E p \in Slots : Attempt(p)
    \/ SweepStart
    \/ SweepInvoke
    \/ SweepCollect
    \/ SweepLogFailure
    \/ SweepFinish
    \/ \E c \in CredIds, t \in FormTypes, i \in FormIntervals :
         CreateCredential(c, t, i, TRUE)
    \/ \E c \in CredIds, i \in Intervals, b \in BOOLEAN : UpdateCredentialRow(c, i, b)
    \/ Advance

Spec == Init /\ [][Next]_vars

\* manual rotations while an administrator may delete a credential
NextDelete ==
    \/ \E c \in CredIds : TriggerRotation(c)
    \/ \E p \in Slots : Attempt(p)
    \/ \E c \in CredIds : DeleteCredential(c)

SpecDelete == Init /\ [][NextDelete]_vars

\* the seed row artifactory-access-token (interval 7) inserted at time 0 and never
\* rotated, eight days later
InitWeek ==
    /\ clock = 8 * Day
    /\ day = 0
    /\ credentials = [c \in CredIds |->
                        IF c = "c1" THEN Some(SeedCredential("c1", "artifactory_token", 7))
                                    ELSE Null]
    /\ rotation_logs = <<>>
    /\ secret_managers = [m \in Range(Managers) |-> m # "azure_key_vault"]
    /\ stores = [m \in Range(Managers) |-> [c \in CredIds |-> Null]]
    /\ env \in Environments
    /\ tfcVars = <<>>
    /\ tfcRuns = [w \in WorkspaceNames |-> 0]
    /\ att = [p \in Slots |-> IdleAttempt]
    /\ nAtt = 0
    /\ sweep = IdleSweep
    /\ nSweeps = 0
    /\ nEdits = 0
    /\ nFaults = 0
    /\ call = NoCall

\* the sweep and the rotations it calls
NextSweep ==
    \/ SweepStart
    \/ SweepInvoke
    \/ SweepCollect
    \/ SweepLogFailure
    \/ SweepFinish
    \/ \E p \in Slots : Attempt(p)

SpecWeek == InitWeek /\ [][NextSweep]_vars

\* the scheduler's next tick: the invocation that has answered is over and the
\* function may be invoked once more
CronTick ==
    /\ sweep.pc = "done"
    /\ sweep' = IdleSweep
    /\ nSweeps' = nSweeps - 1
    /\ UNCHANGED <<call, clock, day, credentials, rotation_logs, secret_managers, stores, env,
                   tfcVars, tfcRuns, att, nAtt, nEdits, nFaults>>

\* sweeps one after another, the rotations they call, and days passing
NextCron ==
    \/ SweepStart
    \/ SweepInvoke
    \/ SweepCollect
    \/ SweepLogFailure
    \/ SweepFinish
    \/ CronTick
    \/ \E p \in Slots : Attempt(p)
    \/ Advance

SpecCron == Init /\ [][NextCron]_vars

\* manual rotations alone
NextRotate ==
    \/ \E c \in CredIds : TriggerRotation(c)
    \/ \E p \in Slots : Attempt(p)

\* no crash, and every request a handler awaits is answered, with a result or an
\* error: a handler that can take a step takes it
SpecFair == Init /\ [][NextRotate]_vars /\ \A p \in Slots : WF_vars(Attempt(p))

\* ------------------------------------------------------------------ claims

Terminal == {"completed", "failed"}

LogIds == 1..Len(rotation_logs)

\* the ledger entries written on behalf of the call in slot p
EntriesOf(p) == {i \in LogIds : rotation_logs[i].attempt = p}

\* the call in slot p has returned to its caller, and a sweep that made the call
\* has finished handling the answer
Returned(p) ==
    /\ att[p].pc = "done"
    /\ att[p].caller = "sweep" => ~(sweep.cur = p /\ sweep.pc \in {"await", "logFailure"})

Events(p) == {att[p].trace[i].e : i \in 1..Len(att[p].trace)}

\* C1: every rotation attempt has exactly one rotation_logs entry, and that entry is
\* completed or failed once the call has returned (stated for the attempts that
\* opened their entry; the sweep's failure entries count toward the attempt)
C1_OneTerminalEntry ==
    \A p \in Slots :
        (Returned(p) /\ att[p].logId # 0) =>
            /\ Cardinality(EntriesOf(p)) = 1
            /\ \A i \in EntriesOf(p) : rotation_logs[i].status \in Terminal

\* C2: a rotation_logs entry that is completed or failed is never changed again
C2_TerminalEntriesImmutable ==
    [][\A i \in LogIds :
          rotation_logs[i].status \in Terminal =>
              /\ i <= Len(rotation_logs')
              /\ rotation_logs'[i].status = rotation_logs[i].status
              /\ rotation_logs'[i].completed_at = rotation_logs[i].completed_at
              /\ rotation_logs'[i].error_message = rotation_logs[i].error_message
              /\ rotation_logs'[i].new_secret_hash = rotation_logs[i].new_secret_hash]_vars

\* two calls for one credential have returned, one entry completed and one failed
C2_Witness ==
    \E p, q \in Slots :
        /\ p # q
        /\ att[p].pc = "done" /\ att[q].pc = "done"
        /\ att[p].credentialId = att[q].credentialId
        /\ att[p].logId # 0 /\ att[q].logId # 0
        /\ rotation_logs[att[p].logId].status = "completed"
        /\ rotation_logs[att[q].logId].status = "failed"

\* the attempt in slot p ended failed: an error response, or a failed ledger entry
EndedFailed(p) ==
    /\ att[p].pc = "done"
    /\ \/ ~att[p].response[1].ok
       \/ \E i \in EntriesOf(p) : rotation_logs[i].status = "failed"

\* C3: an attempt that ends failed has not written the credential's last_rotated_at
\* and next_rotation_at
C3_FailedLeavesBookkeeping ==
    \A p \in Slots : EndedFailed(p) => "cred_update" \notin Events(p)

\* the credentials update itself failed and the never-rotated row is as it was
C3_Witness ==
    \E p \in Slots :
        /\ EndedFailed(p)
        /\ att[p].error[1].at = "updCred"
        /\ Exists(att[p].credentialId)
        /\ Row(att[p].credentialId).last_rotated_at = Null
        /\ Row(att[p].credentialId).next_rotation_at =
              Some(Row(att[p].credentialId).created_at
                   + Row(att[p].credentialId).rotation_interval_days * Day)

InProgressOf(c) ==
    {i \in LogIds : /\ rotation_logs[i].credential_id = c
                    /\ rotation_logs[i].status = "in_progress"}

\* C4: at most one in_progress rotation_logs entry per credential
C4_SingleFlight == \A c \in CredIds : Cardinality(InProgressOf(c)) <= 1

\* the values of the control-plane variables under the key that credential c maps to
VariableOf(c) ==
    LET key == getVariableKeyForCredential(Row(c)) IN
    IF key = Null THEN {}
    ELSE {[id |-> i, value |-> tfcVars[i].value] :
             i \in {j \in 1..Len(tfcVars) : tfcVars[j].key = key[1]}}

EntriesFor(c) == {<<i, rotation_logs[i]>> : i \in {j \in LogIds : rotation_logs[j].credential_id = c}}

\* credential c has been rotated up to the write of its control-plane variable
Synced(c) ==
    \E q \in Slots :
        /\ att[q].credentialId = c
        /\ Events(q) \cap {"tfc_post", "tfc_patch"} # {}

\* C5: rotations of different credentials are independent: a step of an attempt on
\* credential B leaves A's credentials row, A's rotation_logs entries and the
\* control-plane variable that carries A's secret as they were, same type or not
C5_Independent ==
    [][\A p \in Slots : \A c \in CredIds :
          (/\ att[p].pc \notin {"idle", "done"}
           /\ att'[p] # att[p]
           /\ att[p].credentialId # c
           /\ Exists(c)
           /\ Synced(c))
          => /\ credentials'[c] = credentials[c]
             /\ EntriesFor(c)' = EntriesFor(c)
             /\ VariableOf(c)' = VariableOf(c)]_vars

Rank(e) ==
    CASE e = "open" -> 1
      [] e = "load" -> 2
      [] e = "generate" -> 3
      [] e = "publish" -> 4
      [] e = "tfc_list" -> 5
      [] e \in {"tfc_post", "tfc_patch"} -> 6
      [] e \in {"run", "run_failed"} -> 7
      [] e = "cred_update" -> 8
      [] e = "close" -> 9

\* the steps that issue one request per target
Repeated == {"publish", "run", "run_failed"}

EventsBefore(step) ==
    CASE step = "open" -> {}
      [] step \in {"load"} -> {"open"}
      [] step \in {"listSM", "rotate"} -> {"open", "load"}
      [] step = "tfcList" -> {"open", "load", "generate", "publish"}
      [] step = "tfcWrite" -> {"open", "load", "generate", "publish", "tfc_list"}
      [] step = "updCred" -> {"open", "load", "generate", "publish", "tfc_list",
                              "tfc_post", "tfc_patch", "run", "run_failed"}

\* C7: a failure at one of the steps before the closing update prevents every later
\* step's side effect in that attempt; if the ledger entry cannot be opened no
\* secret is generated, nothing is published and the credential is not written
C7_FailureStopsAttempt ==
    \A p \in Slots :
        att[p].error # Null =>
            /\ Events(p) \subseteq EventsBefore(att[p].error[1].at)
            /\ att[p].error[1].at = "open" =>
                  /\ att[p].newSecret = Null
                  /\ att[p].logId = 0

\* the variable write failed after the secret was published: no run, no
\* bookkeeping write, the row never rotated
C7_Witness ==
    \E p \in Slots :
        /\ att[p].pc = "done"
        /\ att[p].error # Null
        /\ att[p].error[1].at = "tfcWrite"
        /\ "publish" \in Events(p)
        /\ Exists(att[p].credentialId)
        /\ Row(att[p].credentialId).last_rotated_at = Null
        /\ \A w \in WorkspaceNames : tfcRuns[w] = 0

\* C8: next_rotation_at = (last_rotated_at, or created_at if never rotated)
\* + rotation_interval_days, for every credential
C8_NextRotationDerived ==
    \A c \in CredIds :
        Exists(c) =>
            Row(c).next_rotation_at =
                Some((IF Row(c).last_rotated_at # Null
                      THEN Row(c).last_rotated_at[1]
                      ELSE Row(c).created_at) + Row(c).rotation_interval_days * Day)

\* C9: the credentials update of a successful rotation sets last_rotated_at later
\* than its previous value and not before the attempt's started_at, and
\* next_rotation_at to the new last_rotated_at + rotation_interval_days
C9_RotationAdvances ==
    [][\A p \in Slots :
          LET c == att[p].credentialId IN
          (/\ att[p].pc = "updCred"
           /\ att'[p].pc = "closeLog"
           /\ Exists(c))
          => /\ Row(c).last_rotated_at # Null =>
                   Row(c)'.last_rotated_at[1] > Row(c).last_rotated_at[1]
             /\ Row(c)'.last_rotated_at[1] >= rotation_logs[att[p].logId].started_at
             /\ Row(c)'.next_rotation_at =
                   Some(Row(c)'.last_rotated_at[1] + Row(c)'.rotation_interval_days * Day)]_vars

\* C10: every value of last_rotated_at was written by an attempt whose ledger entry
\* is completed once the attempt has returned
C10_ChangeHasCompletedEntry ==
    \A c \in CredIds :
        (Exists(c) /\ Row(c).last_rotated_at # Null) =>
            \E p \in Slots :
                /\ att[p].credentialId = c
                /\ att[p].ts = Row(c).last_rotated_at[1]
                /\ "cred_update" \in Events(p)
                /\ \/ att[p].pc = "closeLog"
                   \/ /\ att[p].pc = "done"
                      /\ rotation_logs[att[p].logId].status = "completed"

\* C11: the due-set query of the sweep returns a credential if and only if it is
\* active and its next_rotation_at is at or before the query time, each one once,
\* and changes nothing in the tables
C11_DueSetSelection ==
    [][(sweep.pc = "idle" /\ sweep'.pc = "loop") =>
          /\ \A c \in CredIds :
                (\E i \in 1..Len(sweep'.due) : sweep'.due[i] = c)
                <=> (/\ credentials[c] # Null
                     /\ credentials[c][1].is_active
                     /\ credentials[c][1].next_rotation_at # Null
                     /\ credentials[c][1].next_rotation_at[1] <= clock)
          /\ \A i, j \in 1..Len(sweep'.due) : sweep'.due[i] = sweep'.due[j] => i = j
          /\ UNCHANGED <<credentials, rotation_logs, secret_managers, stores, tfcVars>>]_vars

\* the sweep has queried while an inactive credential was past its due date, and
\* was given nothing
C11_Witness ==
    /\ sweep.pc = "loop"
    /\ sweep.due = <<>>
    /\ nAtt = 0
    /\ \E c \in CredIds :
          /\ Exists(c)
          /\ ~Row(c).is_active
          /\ Row(c).next_rotation_at[1] <= clock

\* the positions of the sweep's failure outcomes
FailedOutcomes == {i \in 1..Len(sweep.results) : ~sweep.results[i].success}

\* the sweep's call for the credential at position i of its due list
SweepCallFor(i) ==
    {p \in Slots : /\ att[p].caller = "sweep"
                   /\ att[p].credentialId = sweep.due[i]}

\* C12: when one rotation of a sweep fails (and no other request answers with an
\* error) the sweep is not aborted: it has an outcome for each due credential, the
\* other due credentials are rotated, and the failure has a failed rotation_logs entry
C12_SweepIsolatesFailure ==
    (sweep.pc = "done" /\ sweep.response[1].success /\ nFaults <= 1) =>
        /\ Len(sweep.results) = Len(sweep.due)
        /\ Cardinality(FailedOutcomes) <= 1
        /\ \A i \in 1..Len(sweep.due) :
              /\ sweep.results[i].credentialId = sweep.due[i]
              /\ i \notin FailedOutcomes =>
                    /\ \E p \in SweepCallFor(i) : "cred_update" \in Events(p)
                    /\ Row(sweep.due[i]).last_rotated_at # Null
              /\ i \in FailedOutcomes =>
                    \E j \in LogIds : /\ rotation_logs[j].credential_id = sweep.due[i]
                                      /\ rotation_logs[j].status = "failed"

\* a finished sweep over two due credentials: the first failed, the second was rotated
C12_Witness ==
    /\ sweep.pc = "done"
    /\ Len(sweep.due) = 2
    /\ Len(sweep.results) = 2
    /\ ~sweep.results[1].success
    /\ sweep.results[2].success
    /\ Row(sweep.due[2]).last_rotated_at # Null
    /\ Row(sweep.due[1]).last_rotated_at = Null
    /\ nFaults = 1

\* C13: a sweep whose due-set query succeeded ends with overall success and one
\* outcome per due credential, a success with its logId or a failure with its error,
\* however many rotations failed
C13_SweepReportsOutcomes ==
    [][(sweep.pc \in {"loop", "await", "logFailure"} /\ sweep'.pc # sweep.pc) =>
          \/ sweep'.pc \in {"loop", "await", "logFailure"}
          \/ /\ sweep'.pc = "done"
             /\ sweep'.response[1].success
             /\ sweep'.response[1].processed = Len(sweep.due)
             /\ Len(sweep'.results) = Len(sweep.due)
             /\ \A i \in 1..Len(sweep.due) :
                   /\ sweep'.results[i].credentialId = sweep.due[i]
                   /\ IF sweep'.results[i].success
                      THEN sweep'.results[i].logId # 0 /\ sweep'.results[i].error = "-"
                      ELSE sweep'.results[i].error # "-"]_vars

\* a finished sweep in which every rotation failed
C13_Witness ==
    /\ sweep.pc = "done"
    /\ sweep.response[1].success
    /\ Len(sweep.results) = 2
    /\ ~sweep.results[1].success
    /\ ~sweep.results[2].success

\* a request of the call in slot p, sent after its ledger entry was opened, has
\* answered with an error: one that was thrown, or the closing update's
StepRaised(p) ==
    /\ att[p].pc = "done"
    /\ att[p].logId # 0
    /\ \/ att[p].error # Null
       \/ "close" \notin Events(p)

\* C14: when a step after the opening of the ledger entry raises an error (the only
\* error so far), the attempt's entry is closed as failed with a completion
\* timestamp and the error's message, and the caller gets an error response with
\* that message
C14_FailureRecordedAndPropagated ==
    \A p \in Slots :
        (StepRaised(p) /\ nFaults <= 1) =>
            /\ rotation_logs[att[p].logId].status = "failed"
            /\ rotation_logs[att[p].logId].completed_at # Null
            /\ rotation_logs[att[p].logId].error_message # Null
            /\ ~att[p].response[1].ok
            /\ att[p].error # Null =>
                  /\ rotation_logs[att[p].logId].error_message = Some(att[p].error[1].message)
                  /\ att[p].response[1].error = att[p].error[1].message

\* C15: rotating an inactive credential fails: no secret is generated, published
\* or synced and the credential is not written
C15_InactiveRejected ==
    \A p \in Slots :
        (att[p].credential # Null /\ ~att[p].credential[1].is_active) =>
            /\ att[p].newSecret = Null
            /\ Events(p) \subseteq {"open", "load"}
            /\ att[p].pc = "done" => ~att[p].response[1].ok

\* C16: rotating an identifier that is not in credentials fails with the
\* not-found error, generates, publishes and syncs nothing, and leaves no
\* in_progress ledger entry
C16_UnknownCredentialNotFound ==
    \A p \in Slots :
        (att[p].pc # "idle" /\ ~Exists(att[p].credentialId)) =>
            /\ att[p].newSecret = Null
            /\ Events(p) \subseteq {"open"}
            /\ att[p].pc = "done" =>
                  /\ ~att[p].response[1].ok
                  /\ att[p].response[1].error = "Credential not found"
                  /\ \A i \in EntriesOf(p) : rotation_logs[i].status \in Terminal

\* one of the three control-plane settings is absent
Unconfigured == ~(env.TFC_API_TOKEN /\ env.TFC_ORGANIZATION /\ env.TFC_VARIABLE_SET_ID)

TfcEvents == {"tfc_list", "tfc_post", "tfc_patch", "run", "run_failed"}

\* C17: when the API token, the organization or the variable-set identifier is not
\* configured, no control-plane request is issued, and a rotation (of a stored
\* credential, no request answering with an error) still completes: its ledger
\* entry is completed and last_rotated_at is written
C17_UnconfiguredSkipsSync ==
    Unconfigured =>
        /\ tfcVars = <<>>
        /\ \A w \in WorkspaceNames : tfcRuns[w] = 0
        /\ \A p \in Slots :
              /\ att[p].pc \notin {"tfcList", "tfcWrite", "runs"}
              /\ Events(p) \cap TfcEvents = {}
              /\ (att[p].pc = "done" /\ att[p].credential # Null /\ nFaults = 0) =>
                    /\ att[p].response[1].ok
                    /\ rotation_logs[att[p].logId].status = "completed"
                    /\ Row(att[p].credentialId).last_rotated_at # Null

\* the token is set, another setting is not, workspaces are named; a rotation
\* has completed and the secret managers hold its secret
C17_Witness ==
    /\ Unconfigured
    /\ env.TFC_API_TOKEN
    /\ env.TFC_WORKSPACES # Null
    /\ \E p \in Slots :
          /\ att[p].pc = "done"
          /\ att[p].response[1].ok
          /\ rotation_logs[att[p].logId].status = "completed"
          /\ Row(att[p].credentialId).last_rotated_at = Some(att[p].ts)
          /\ \A m \in Range(ActiveManagers) :
                stores[m][att[p].credential[1].external_secret_path] = att[p].newSecret

\* the variable upsert of the call in slot p failed, it is the only error so far
\* and no other call has generated a secret
UpsertFailedAlone(p) ==
    /\ att[p].pc = "done"
    /\ att[p].error # Null
    /\ att[p].error[1].at \in {"tfcList", "tfcWrite"}
    /\ nFaults = 1
    /\ \A q \in Slots \ {p} : att[q].newSecret = Null

WithKey(varsData, key) == {i \in 1..Len(varsData) : varsData[i].key = key}

\* every other call that has written a variable built its credentials update
\* before the call in slot p opened its ledger entry
WroteEarlier(p) ==
    \A q \in Slots \ {p} :
        Events(q) \cap {"tfc_post", "tfc_patch"} # {} =>
            /\ att[q].ts # 0
            /\ att[q].ts < rotation_logs[att[p].logId].started_at

\* C19: the upsert lists the variables first; if one with the key was found it
\* updates that variable (same id, new value, sensitive) and creates none, else it
\* creates one with the key, the value and sensitive; after an upsert that began
\* when the earlier ones were over, on a set with at most one variable of the key,
\* the set holds one variable with the key and it has the new value
C19_VariableUpsert ==
    [][\A p \in Slots :
          (att[p].pc = "tfcWrite" /\ att'[p].pc \notin {"tfcWrite", "failLog"}) =>
              LET key == getVariableKeyForCredential(att[p].credential[1])[1]
                  new == [key |-> key, value |-> att[p].newSecret[1], sensitive |-> TRUE]
                  found == att[p].existingVar
              IN
              /\ "tfc_list" \in Events(p)
              /\ found # 0 =>
                    /\ tfcVars[found].key = key
                    /\ tfcVars' = [tfcVars EXCEPT ![found] = new]
              /\ found = 0 => tfcVars' = Append(tfcVars, new)
              /\ (Cardinality(WithKey(tfcVars, key)) <= 1 /\ WroteEarlier(p))
                 => /\ Cardinality(WithKey(tfcVars', key)) = 1
                    /\ \A i \in WithKey(tfcVars', key) :
                          tfcVars'[i].value = att[p].newSecret[1]]_vars

\* one rotation created the variable, a later one updated it: the set holds one
\* variable, with the later secret
C19_Witness ==
    \E p, q \in Slots :
        /\ "tfc_post" \in Events(p)
        /\ "tfc_patch" \in Events(q)
        /\ Len(tfcVars) = 1
        /\ tfcVars[1].value = att[q].newSecret[1]
        /\ tfcVars[1].sensitive

\* the run requests the call in slot p has issued, in order
RunRequests(p) ==
    SelectSeq(att[p].trace, LAMBDA ev : ev.e \in {"run", "run_failed"})

\* C20: one run request per configured workspace; a failed request neither stops
\* the remaining requests nor fails the rotation, and the failed workspaces are
\* collected as a partial-failure list
C20_RunFailuresCollected ==
    \A p \in Slots :
        (/\ att[p].pc \in {"updCred", "closeLog", "failLog", "done"}
         /\ Events(p) \cap {"tfc_post", "tfc_patch"} # {}
         /\ Len(TfcWorkspaces(env)) > 0) =>
            /\ Len(RunRequests(p)) = Len(TfcWorkspaces(env))
            /\ \A i \in 1..Len(RunRequests(p)) : RunRequests(p)[i].m = TfcWorkspaces(env)[i]
            /\ att[p].error # Null => att[p].error[1].at = "updCred"
            /\ Range(CollectedRunFailures(att[p])) =
                  {RunRequests(p)[i].m : i \in {j \in 1..Len(RunRequests(p)) :
                                                   RunRequests(p)[j].e = "run_failed"}}

\* C21: a successful rotation returns the ledger entry's id and the hash of the new
\* secret, and the returned hash is the new_secret_hash recorded on that entry
C21_SuccessReturnsHash ==
    \A p \in Slots :
        (att[p].pc = "done" /\ att[p].response[1].ok) =>
            /\ att[p].response[1].logId = att[p].logId
            /\ ResponseSecretHash(att[p]) # Null
            /\ ResponseSecretHash(att[p]) = rotation_logs[att[p].logId].new_secret_hash

\* the text fields of the credentials rows, of the ledger rows and of the responses
PersistedText ==
    UNION { {Row(c).id, Row(c).type, Row(c).external_secret_path} :
              c \in {d \in CredIds : Exists(d)} }
      \cup UNION { {rotation_logs[i].credential_id, rotation_logs[i].rotation_trigger,
                    rotation_logs[i].status} \cup Range(rotation_logs[i].error_message) :
                     i \in LogIds }
      \cup {att[p].response[1].error : p \in {q \in Slots : att[q].response # Null}}

\* C22: the generated secret reaches neither the credentials rows nor the caller's
\* response, and of a ledger row only new_secret_hash depends on it, as its hash:
\* no text field of them holds a generated value, so behaviours that differ only
\* in the generated value agree on them up to new_secret_hash
C22_SecretNotPersisted ==
    /\ PersistedText \cap Secrets = {}
    /\ \A i \in LogIds :
          \/ rotation_logs[i].new_secret_hash = Null
          \/ \E s \in Secrets : rotation_logs[i].new_secret_hash = Some(hashSecret(s))
    /\ \A p \in Slots :
          (att[p].response # Null /\ att[p].response[1].ok) =>
              DOMAIN att[p].response[1] = {"ok", "logId", "error"}

\* two rotations with different generated values have completed: their ledger
\* entries hold different hashes, the responses differ in the entry id alone
C22_Witness ==
    \E p, q \in Slots :
        /\ att[p].pc = "done" /\ att[q].pc = "done"
        /\ att[p].response[1].ok /\ att[q].response[1].ok
        /\ att[p].newSecret # att[q].newSecret
        /\ rotation_logs[att[p].logId].new_secret_hash = Some(hashSecret(att[p].newSecret[1]))
        /\ rotation_logs[att[q].logId].new_secret_hash = Some(hashSecret(att[q].newSecret[1]))
        /\ [att[p].response[1] EXCEPT !.logId = 0] = [att[q].response[1] EXCEPT !.logId = 0]

\* C23: every rotation_logs entry is created in_progress and changes status once,
\* to completed or to failed; no entry is skipped or pending, and none is created
\* in a terminal status
C23_LedgerLifecycle ==
    [][/\ \A i \in (Len(rotation_logs) + 1)..Len(rotation_logs') :
             rotation_logs'[i].status = "in_progress"
       /\ \A i \in LogIds :
             rotation_logs'[i].status # rotation_logs[i].status =>
                 /\ rotation_logs[i].status = "in_progress"
                 /\ rotation_logs'[i].status \in Terminal
       /\ \A i \in 1..Len(rotation_logs') :
             rotation_logs'[i].status \notin {"skipped", "pending"}]_vars

\* what manager m holds at path: whatever the loop handed over went through the
\* switch case of the manager's type
ManagerHolds(m, path) ==
    IF stores[m][path] = Null
    THEN Null
    ELSE storeCase(m, [c \in CredIds |-> Null], path, stores[m][path][1])[path]

\* C25: when a rotation completes, every active secret manager, and no inactive
\* one, holds the rotated secret under the credential's external_secret_path
C25_FanOutToActiveManagers ==
    \A p \in Slots :
        (/\ att[p].pc = "done"
         /\ att[p].response[1].ok
         /\ \A q \in Slots \ {p} : att[q].newSecret = Null) =>
            \A m \in Range(Managers) :
                ManagerHolds(m, att[p].credential[1].external_secret_path) =
                    IF secret_managers[m] THEN att[p].newSecret ELSE Null

\* C26: deleting a credential deletes its rotation history: every rotation_logs
\* entry references an existing credential, also when the credential is deleted
\* while a rotation of it is in progress
C26_HistoryFollowsCredential ==
    \A i \in LiveRows(rotation_logs) : Exists(rotation_logs[i].credential_id)

\* a rotation is in progress, its credential and its ledger entry are gone, and
\* an entry of the other credential is still there
C26_Witness ==
    \E p \in Slots :
        /\ att[p].pc \notin {"idle", "done"}
        /\ att[p].logId # 0
        /\ ~Exists(att[p].credentialId)
        /\ att[p].logId \notin LiveRows(rotation_logs)
        /\ \E i \in LiveRows(rotation_logs) :
              rotation_logs[i].credential_id # att[p].credentialId

\* C27: with no crash and every external call answered, every opened rotation
\* attempt reaches a terminal ledger status: no entry stays in_progress forever
C27_EntryReachesTerminal ==
    \A i \in 1..MaxAttempts :
        (Len(rotation_logs) >= i /\ rotation_logs[i].status = "in_progress")
            ~> (Len(rotation_logs) >= i /\ rotation_logs[i].status \in Terminal)

\* C29: a credential with interval 7 days created at T0 = 0 and never rotated has
\* next_rotation_at = T0 + 7d; a sweep at T0 + 8d includes it; after that sweep's
\* successful rotation last_rotated_at = T0 + 8d and next_rotation_at = T0 + 15d
C29_WeeklyScenario ==
    /\ Row("c1").last_rotated_at = Null => Row("c1").next_rotation_at = Some(7 * Day)
    /\ (sweep.pc \in {"loop", "await", "logFailure"}
          \/ (sweep.pc = "done" /\ sweep.response[1].success)) => sweep.due = <<"c1">>
    /\ \A i \in 1..Len(sweep.results) :
          sweep.results[i].success =>
              /\ Row("c1").last_rotated_at = Some(8 * Day)
              /\ Row("c1").next_rotation_at = Some(15 * Day)

\* the sweep has answered with one successful rotation and the row has the new dates
C29_Witness ==
    /\ sweep.pc = "done"
    /\ sweep.response[1].success
    /\ Len(sweep.results) = 1
    /\ sweep.results[1].success
    /\ Row("c1").rotation_interval_days = 7
    /\ Row("c1").created_at = 0
    /\ Row("c1").last_rotated_at = Some(8 * Day)
    /\ Row("c1").next_rotation_at = Some(15 * Day)

\* C30: in every rotation_logs entry completed_at is null exactly when the status is
\* in_progress, error_message is set only on failed entries and new_secret_hash
\* only on completed ones
C30_LedgerFields ==
    \A i \in LogIds :
        /\ (rotation_logs[i].completed_at = Null) <=> (rotation_logs[i].status = "in_progress")
        /\ rotation_logs[i].error_message # Null => rotation_logs[i].status = "failed"
        /\ rotation_logs[i].new_secret_hash # Null => rotation_logs[i].status = "completed"

\* the ledger holds an entry left in progress, a completed entry with its hash and
\* a failed entry with its message
C30_Witness ==
    \E i, j, k \in LogIds :
        /\ rotation_logs[i].status = "in_progress"
        /\ rotation_logs[i].completed_at = Null
        /\ rotation_logs[j].status = "completed"
        /\ rotation_logs[j].new_secret_hash # Null
        /\ rotation_logs[j].completed_at # Null
        /\ rotation_logs[k].status = "failed"
        /\ rotation_logs[k].error_message # Null
        /\ rotation_logs[k].completed_at # Null

\* C31: no run is requested when the set of workspace names is empty: TFC_WORKSPACES
\* not set, or set to the empty string
C31_NoRunWithoutWorkspaces ==
    (env.TFC_WORKSPACES = Null \/ env.TFC_WORKSPACES = Some(<<>>)) =>
        /\ \A w \in WorkspaceNames : tfcRuns[w] = 0
        /\ \A p \in Slots : Events(p) \cap {"run", "run_failed"} = {}

\* the calls that rotate credential c
CallsOn(c) == {p \in Slots : att[p].pc # "idle" /\ att[p].credentialId = c}

\* the completed entries of credential c that were closed last
LastCompleted(c) ==
    {i \in LogIds :
        /\ rotation_logs[i].credential_id = c
        /\ rotation_logs[i].status = "completed"
        /\ \A j \in LogIds :
              (rotation_logs[j].credential_id = c /\ rotation_logs[j].status = "completed")
              => rotation_logs[j].completed_at[1] <= rotation_logs[i].completed_at[1]}

\* C34: when two or more rotations of one credential have all returned success, with
\* no failed external call and one variable of the credential's key in the set, that
\* variable holds the value the secret managers were handed last, and the hash of
\* that value is on the entry that was completed last
C34_ConcurrentRotationsAgree ==
    \A c \in CredIds :
        (/\ Exists(c)
         /\ nFaults = 0
         /\ Cardinality(CallsOn(c)) >= 2
         /\ \A p \in CallsOn(c) :
               /\ att[p].pc = "done"
               /\ att[p].error = Null
               /\ Events(p) \cap {"tfc_post", "tfc_patch"} # {}
         /\ Cardinality(VariableOf(c)) = 1)
        => \A v \in VariableOf(c) :
              /\ \A m \in Range(ActiveManagers) :
                    stores[m][Row(c).external_secret_path] = Some(v.value)
              /\ \E i \in LastCompleted(c) :
                    rotation_logs[i].new_secret_hash = Some(hashSecret(v.value))

\* C35: the variable set never holds two variables with the same key
C35_OneVariablePerKey ==
    \A i, j \in 1..Len(tfcVars) : tfcVars[i].key = tfcVars[j].key => i = j

\* the positions in the record of the call in slot p that hold one of the events es
Positions(p, es) == {i \in 1..Len(att[p].trace) : att[p].trace[i].e \in es}

\* C38: a call requests a run only after its own variable write has succeeded: every
\* run request in a call's record comes after a successful POST or PATCH of the
\* variable in the same record; a call whose upsert failed, or that runs without the
\* token, the organization or the variable-set id, has requested no run
C38_RunsAfterUpsert ==
    \A p \in Slots :
        /\ \A i \in Positions(p, {"run", "run_failed"}) :
              \E j \in Positions(p, {"tfc_post", "tfc_patch"}) : j < i
        /\ att[p].pc = "runs" => Positions(p, {"tfc_post", "tfc_patch"}) # {}
        /\ (att[p].error # Null /\ att[p].error[1].at \in {"tfcList", "tfcWrite"})
              => Positions(p, {"run", "run_failed"}) = {}
        /\ Unconfigured => Positions(p, {"run", "run_failed"}) = {}

\* workspaces are named and the variable write of a call failed: the call ended
\* failed without a run, while another call wrote the variable and created a run
C38_Witness ==
    \E p, q \in Slots :
        /\ env.TFC_WORKSPACES = Some(<<"ws1", "ws2">>)
        /\ att[p].pc = "done"
        /\ att[p].error # Null
        /\ att[p].error[1].at = "tfcWrite"
        /\ att[p].newSecret # Null
        /\ Positions(p, {"run", "run_failed"}) = {}
        /\ Positions(q, {"tfc_post", "tfc_patch"}) # {}
        /\ "run" \in Events(q)

\* the rotate-credential calls the sweep has made
SweepCalls == {p \in Slots : att[p].caller = "sweep"}

\* the number of due credentials the loop has requested so far
Requested ==
    IF sweep.pc \in {"await", "logFailure"} THEN sweep.idx ELSE sweep.idx - 1

\* C37: within a sweep the rotations run one after another: at most one of the
\* sweep's calls is being served, and it is the call the sweep is waiting for; the
\* credentials requested so far are the first ones of the due list, each requested
\* by exactly one call, with trigger scheduled; every call before the current one
\* has returned and has its outcome in the result list, in the order of the due
\* list; the final response reports as many credentials as the list has outcomes
C37_SweepSequential ==
    /\ \A p \in SweepCalls :
          /\ att[p].trigger = "scheduled"
          /\ att[p].pc # "done" => (sweep.pc = "await" /\ sweep.cur = p)
    /\ Cardinality(SweepCalls) = Requested
    /\ \A i \in 1..Len(sweep.due) :
          Cardinality(SweepCallFor(i)) = IF i <= Requested THEN 1 ELSE 0
    /\ Len(sweep.results) = IF sweep.pc = "await" THEN sweep.idx - 1 ELSE Requested
    /\ \A i \in 1..Len(sweep.results) :
          /\ sweep.results[i].credentialId = sweep.due[i]
          /\ \A p \in SweepCallFor(i) :
                /\ att[p].pc = "done"
                /\ sweep.results[i].success = att[p].response[1].ok
    /\ (sweep.pc = "done" /\ sweep.response[1].success) =>
          /\ Requested = Len(sweep.due)
          /\ sweep.response[1].processed = Len(sweep.results)

\* two credentials are due: the first call has returned and its outcome is in the
\* list, the second call is being served
C37_Witness ==
    /\ sweep.pc = "await"
    /\ Len(sweep.due) = 2
    /\ sweep.idx = 2
    /\ Len(sweep.results) = 1
    /\ \E p, q \in SweepCalls :
          /\ att[p].credentialId = sweep.due[1]
          /\ att[p].pc = "done"
          /\ att[q].credentialId = sweep.due[2]
          /\ att[q].pc \notin {"idle", "open", "done"}

\* the sweep's call in slot p has rotated its credential: it answered with success
\* and the credential exists
RotatedBySweep(p) ==
    /\ p \in SweepCalls
    /\ att[p].pc = "done"
    /\ att[p].response[1].ok
    /\ Exists(att[p].credentialId)

\* C36: a credential that a sweep has rotated successfully is not due again before
\* last_rotated_at + rotation_interval_days: its next_rotation_at is at least that
\* date, until then no due-set query selects it, and no later sweep has called
\* rotate-credential for it in that time
C36_NotDueAgain ==
    \A p \in Slots :
        RotatedBySweep(p) =>
            LET c == att[p].credentialId
                until == att[p].ts + Row(c).rotation_interval_days * Day
            IN
            /\ Row(c).rotation_interval_days >= 1
            /\ Row(c).next_rotation_at[1] >= until
            /\ clock < until => c \notin DueSet(clock)
            /\ \A q \in SweepCalls \ {p} :
                  (att[q].credentialId = c /\ att[q].logId # 0) =>
                      \/ rotation_logs[att[q].logId].started_at <= att[p].ts
                      \/ rotation_logs[att[q].logId].started_at >= until

\* a second sweep, started after the first one rotated its credential and before a
\* day has passed, found nothing due and has answered
C36_Witness ==
    /\ sweep.pc = "done"
    /\ sweep.response[1].success
    /\ sweep.due = <<>>
    /\ day = 0
    /\ \E p \in Slots :
          /\ RotatedBySweep(p)
          /\ Row(att[p].credentialId).is_active
          /\ Row(att[p].credentialId).last_rotated_at = Some(att[p].ts)

\* ------------------------------------------------------- library functions

\* the state of the handlers and tables, which an evaluation of a library function
\* on its own leaves alone
system == <<clock, day, credentials, rotation_logs, secret_managers, stores, env,
            tfcVars, tfcRuns, att, nAtt, sweep, nSweeps, nEdits, nFaults>>

\* the tables and handlers at rest while a library function is evaluated
SystemAtRest ==
    /\ clock = Day
    /\ day = 0
    /\ credentials = [c \in CredIds |-> Null]
    /\ rotation_logs = <<>>
    /\ secret_managers = [m \in Range(Managers) |-> FALSE]
    /\ stores = [m \in Range(Managers) |-> [c \in CredIds |-> Null]]
    /\ env = [TFC_API_TOKEN |-> TRUE, TFC_ORGANIZATION |-> TRUE,
              TFC_VARIABLE_SET_ID |-> TRUE, TFC_WORKSPACES |-> Null]
    /\ tfcVars = <<>>
    /\ tfcRuns = [w \in WorkspaceNames |-> 0]
    /\ att = [p \in Slots |-> IdleAttempt]
    /\ nAtt = 0
    /\ sweep = IdleSweep
    /\ nSweeps = 0
    /\ nEdits = 0
    /\ nFaults = 0

\* HTTP statuses the control plane may answer with
Statuses == {199, 200, 204, 299, 300, 404, 422, 500}

\* response bodies, and what JSON.parse makes of them; other text is not JSON
JsonBodies == {"{\"data\":[]}", "{\"errors\":[\"Not found\"]}"}
Bodies == JsonBodies \cup {"Bad Gateway", ""}

ParseJson(body) ==
    CASE body = "{\"data\":[]}" -> [data |-> <<>>]
      [] body = "{\"errors\":[\"Not found\"]}" -> [errors |-> <<"Not found">>]

\* variant: redirects and the like count as success
ResponseOk_Below400(status) == status < 400

\* Response.ok, read by if (!response.ok)
ResponseOk(status) == status >= 200 /\ status <= 299

\* new Error(`TFC API Error: ${response.status} - ${errorText}`): the parts of the message
TfcApiError(status, errorText) ==
    [name |-> "Error", message |-> <<"TFC API Error: ", ToString(status), " - ", errorText>>]

\* the calls of request: one per response of the control plane
RequestCalls ==
    {[fn |-> "request", response |-> [status |-> st, body |-> b], pc |-> "fetch",
      thrown |-> Null, returned |-> Null] : st \in Statuses, b \in Bodies}

\* await fetch(url, ...) has resolved; if (!response.ok)
RequestFetch ==
    /\ call.fn = "request"
    /\ call.pc = "fetch"
    /\ call' = [call EXCEPT !.pc = IF ~ResponseOk(call.response.status) THEN "text" ELSE "json"]
    /\ UNCHANGED system

\* const errorText = await response.text(); throw new Error(...)
RequestText ==
    /\ call.fn = "request"
    /\ call.pc = "text"
    /\ call' = [call EXCEPT !.pc = "done",
                   !.thrown = Some(TfcApiError(call.response.status, call.response.body))]
    /\ UNCHANGED system

\* return response.json(): the parsed payload, or the parser's rejection
RequestJson ==
    /\ call.fn = "request"
    /\ call.pc = "json"
    /\ call' = IF call.response.body \in JsonBodies
               THEN [call EXCEPT !.pc = "done",
                        !.returned = Some(ParseJson(call.response.body))]
               ELSE [call EXCEPT !.pc = "done",
                        !.thrown = Some([name |-> "SyntaxError", message |-> <<>>])]
    /\ UNCHANGED system

\* C32: a control-plane request whose response status is not 2xx raises an error
\* whose message carries the status and the response body, and returns no payload;
\* the body of such a response is never parsed as a payload
C32_NonOkRaises ==
    (call.fn = "request" /\ call.response.status \notin 200..299) =>
        /\ call.pc # "json"
        /\ call.returned = Null
        /\ call.pc = "done" =>
              /\ call.thrown # Null
              /\ call.thrown[1].name = "Error"
              /\ call.thrown[1].message[1] = "TFC API Error: "
              /\ call.thrown[1].message[2] = ToString(call.response.status)
              /\ call.thrown[1].message[4] = call.response.body

\* a 422 with a JSON body was raised as an error, the body in its message
C32_Witness ==
    /\ call.fn = "request"
    /\ call.pc = "done"
    /\ call.response.status = 422
    /\ call.response.body \in JsonBodies
    /\ call.returned = Null
    /\ call.thrown # Null
    /\ call.thrown[1].message[4] = call.response.body

\* the alphabets of the generators, character by character
TokenChars ==
    <<"A", "B", "C", "D", "E", "F", "G", "H", "I", "J", "K", "L", "M", "N", "O", "P",
    "Q", "R", "S", "T", "U", "V", "W", "X", "Y", "Z", "a", "b", "c", "d", "e", "f",
    "g", "h", "i", "j", "k", "l", "m", "n", "o", "p", "q", "r", "s", "t", "u", "v",
    "w", "x", "y", "z", "0", "1", "2", "3", "4", "5", "6", "7", "8", "9">>

PasswordChars ==
    <<"A", "B", "C", "D", "E", "F", "G", "H", "I", "J", "K", "L", "M", "N", "O", "P",
    "Q", "R", "S", "T", "U", "V", "W", "X", "Y", "Z", "a", "b", "c", "d", "e", "f",
    "g", "h", "i", "j", "k", "l", "m", "n", "o", "p", "q", "r", "s", "t", "u", "v",
    "w", "x", "y", "z", "0", "1", "2", "3", "4", "5", "6", "7", "8", "9", "!", "@",
    "#", "$", "%", "^", "&", "*">>

FingerprintChars ==
    <<"0", "1", "2", "3", "4", "5", "6", "7", "8", "9", "A", "B", "C", "D", "E", "F">>

\* the sequences of values Math.random() returns in the model: the index
\* Math.floor(Math.random() * chars.length) starts at first and moves on by stride
\* with every draw
Strides == {0, 1, 7}

RandomIndex(len, first, stride, i) == (first + i * stride) % len

\* chars.charAt(Math.floor(Math.random() * chars.length)) at iteration i
Drawn(chars, c) == chars[RandomIndex(Len(chars), c.first, c.stride, c.i) + 1]

GeneratorCalls(fn, chars) ==
    {[fn |-> fn, first |-> f, stride |-> st, i |-> 0, result |-> <<>>, pc |-> "loop"] :
        f \in 0..(Len(chars) - 1), st \in Strides}

\* variant: a colon after every pair
ColonAfter_EveryPair(i) == i % 2 = 1

\* if (i % 2 === 1 && i < 39) result += ':'
ColonAfter(i) == i % 2 = 1 /\ i < 39

\* for (let i = 0; i < 32; i++) result += chars.charAt(...); return result
generateSecureToken ==
    /\ call.fn = "generateSecureToken"
    /\ call.pc = "loop"
    /\ call' = IF call.i < 32
               THEN [call EXCEPT !.result = Append(@, Drawn(TokenChars, call)), !.i = @ + 1]
               ELSE [call EXCEPT !.pc = "done"]
    /\ UNCHANGED system

\* for (let i = 0; i < 16; i++) result += chars.charAt(...); return result
generateSecurePassword ==
    /\ call.fn = "generateSecurePassword"
    /\ call.pc = "loop"
    /\ call' = IF call.i < 16
               THEN [call EXCEPT !.result = Append(@, Drawn(PasswordChars, call)), !.i = @ + 1]
               ELSE [call EXCEPT !.pc = "done"]
    /\ UNCHANGED system

\* for (let i = 0; i < 40; i++) { result += chars.charAt(...); if (...) result += ':' }
generateCertificateFingerprint ==
    /\ call.fn = "generateCertificateFingerprint"
    /\ call.pc = "loop"
    /\ call' = IF call.i < 40
               THEN [call EXCEPT !.result = Append(@, Drawn(FingerprintChars, call))
                                              \o (IF ColonAfter(call.i) THEN <<":">> ELSE <<>>),
                                 !.i = @ + 1]
               ELSE [call EXCEPT !.pc = "done"]
    /\ UNCHANGED system

\* letters and digits, the symbols of a password, hexadecimal digits
Alphanumeric ==
    {"A", "B", "C", "D", "E", "F", "G", "H", "I", "J", "K", "L", "M", "N", "O", "P",
    "Q", "R", "S", "T", "U", "V", "W", "X", "Y", "Z"}
    \cup
    {"a", "b", "c", "d", "e", "f", "g", "h", "i", "j", "k", "l", "m", "n", "o", "p",
    "q", "r", "s", "t", "u", "v", "w", "x", "y", "z"}
    \cup {"0", "1", "2", "3", "4", "5", "6", "7", "8", "9"}

Symbols == {"!", "@", "#", "$", "%", "^", "&", "*"}

HexDigits == {"0", "1", "2", "3", "4", "5", "6", "7", "8", "9", "A", "B", "C", "D", "E", "F"}

Generators == {"generateSecureToken", "generateSecurePassword", "generateCertificateFingerprint"}

\* C33: every value a generator returns has its format: the access token is 32
\* alphanumeric characters; the password is 16 characters, each alphanumeric or one
\* of the symbols; the certificate identifier is 59 characters, 20 groups of two
\* hexadecimal digits with one colon between neighbouring groups, none before the
\* first group and none after the last
C33_GeneratedFormats ==
    (call.fn \in Generators /\ call.pc = "done") =>
        /\ call.fn = "generateSecureToken" =>
              /\ Len(call.result) = 32
              /\ \A k \in 1..Len(call.result) : call.result[k] \in Alphanumeric
        /\ call.fn = "generateSecurePassword" =>
              /\ Len(call.result) = 16
              /\ \A k \in 1..Len(call.result) : call.result[k] \in Alphanumeric \cup Symbols
        /\ call.fn = "generateCertificateFingerprint" =>
              /\ Len(call.result) = 59
              /\ \A k \in 1..Len(call.result) :
                    IF k % 3 = 0 THEN call.result[k] = ":" ELSE call.result[k] \in HexDigits

\* a certificate identifier was returned whose draws went through the whole
\* alphabet: it begins with two digits and ends with a group of two
C33_Witness ==
    /\ call.fn = "generateCertificateFingerprint"
    /\ call.pc = "done"
    /\ call.stride = 7
    /\ call.result[1] \in HexDigits
    /\ call.result[3] = ":"
    /\ call.result[57] = ":"
    /\ call.result[59] \in HexDigits
    /\ \E k \in 1..59 : call.result[k] = "F"

\* ------------------------------------- the two variable upserts side by side

\* a variable of the set as the control plane holds it
Variable(id, key, value, sensitive, description) ==
    [ id |-> id, key |-> key, value |-> value, sensitive |-> sensitive,
      category |-> "terraform", description |-> description ]

UpsertKeys == {"artifactory_access_token", "ldap_manager_password"}

\* the variable sets an upsert may find: up to two variables, sensitive or not,
\* the ids given in order of creation
InitialSets ==
    {<<>>}
    \cup {<<Variable(1, k, "s0", b, Null)>> : k \in UpsertKeys, b \in BOOLEAN}
    \cup {<<Variable(1, k1, "s0", b1, Null), Variable(2, k2, "s0", b2, Null)>> :
             k1 \in UpsertKeys, k2 \in UpsertKeys, b1 \in BOOLEAN, b2 \in BOOLEAN}

\* one implementation at the start of updateVariableInSet, on its copy of the set
UpsertStart(set) ==
    [ pc |-> "list", set |-> set, existingVar |-> 0, requests |-> <<>>, thrown |-> Null ]

\* the calls of the two implementations with the same arguments against the same
\* control plane: the same initial set, and the same answers (ok or an error) to
\* the GET and to the write
UpsertCalls ==
    {[fn |-> "updateVariableInSet", key |-> k, value |-> "s1",
      getOk |-> g, writeOk |-> w, edge |-> UpsertStart(set), client |-> UpsertStart(set)] :
        k \in UpsertKeys, g \in BOOLEAN, w \in BOOLEAN, set \in InitialSets}

\* a request as the control plane receives it
Request(method, id, payload) == [method |-> method, id |-> id, payload |-> payload]

\* the control plane applies a PATCH: the attributes of the payload replace those
\* of the variable, an attribute the payload does not name stays
ApplyPatch(set, i, payload) ==
    [set EXCEPT ![i] = [@ EXCEPT !.key = payload.attributes.key,
                                 !.value = payload.attributes.value,
                                 !.sensitive = payload.attributes.sensitive,
                                 !.category = payload.attributes.category]]

\* the control plane applies a POST: a new variable with the payload's attributes
ApplyPost(set, payload) ==
    Append(set, [ id |-> Len(set) + 1,
                  key |-> payload.attributes.key, value |-> payload.attributes.value,
                  sensitive |-> payload.attributes.sensitive,
                  category |-> payload.attributes.category,
                  description |-> payload.attributes.description ])

\* the request of the implementation in state u is answered: the set after it, the
\* request added to those issued, done
Written(u, method, payload) ==
    LET sent == [u EXCEPT !.requests = Append(@, Request(method, payload.id, payload))] IN
    IF ~call.writeOk
    THEN [sent EXCEPT !.pc = "done", !.thrown = Some(TfcApiError(500, "Bad Gateway"))]
    ELSE [sent EXCEPT !.pc = "done",
                      !.set = IF method = "PATCH"
                              THEN ApplyPatch(u.set, u.existingVar, payload)
                              ELSE ApplyPost(u.set, payload)]

\* the GET of the variables is answered: find by key, or the error of request
Listed(u) ==
    LET sent == [u EXCEPT !.requests = Append(@, Request("GET", Null, Null))] IN
    IF ~call.getOk
    THEN [sent EXCEPT !.pc = "done", !.thrown = Some(TfcApiError(500, "Bad Gateway"))]
    ELSE [sent EXCEPT !.pc = "write", !.existingVar = FindVar(u.set, call.key)]

\* rotate-credential: payload of the PATCH
EdgePatchPayload(existingVar, key, value) ==
    [ type |-> "vars", id |-> Some(existingVar.id),
      attributes |-> [ key |-> key, value |-> value, sensitive |-> TRUE,
                       category |-> "terraform", description |-> Null ] ]

\* rotate-credential: payload of the POST
EdgePostPayload(key, value) ==
    [ type |-> "vars", id |-> Null,
      attributes |-> [ key |-> key, value |-> value, sensitive |-> TRUE,
                       category |-> "terraform",
                       description |-> Some(<<"Rotated credential: ", key>>) ] ]

\* variant: the client's parameter defaults to false
ClientDefaultSensitive_False == FALSE

\* terraformCloudService.ts: sensitive: boolean = true
ClientDefaultSensitive == TRUE

\* terraformCloudService.ts: payload of the PATCH
ClientPatchPayload(existingVar, key, value, sensitive) ==
    [ type |-> "vars", id |-> Some(existingVar.id),
      attributes |-> [ key |-> key, value |-> value, sensitive |-> sensitive,
                       category |-> "terraform", description |-> Null ] ]

\* terraformCloudService.ts: payload of the POST
ClientPostPayload(key, value, sensitive) ==
    [ type |-> "vars", id |-> Null,
      attributes |-> [ key |-> key, value |-> value, sensitive |-> sensitive,
                       category |-> "terraform",
                       description |-> Some(<<"Rotated credential: ", key>>) ] ]

\* rotate-credential updateVariableInSet: this.request(.../relationships/vars), find
EdgeListVars ==
    /\ call.fn = "updateVariableInSet"
    /\ call.edge.pc = "list"
    /\ call' = [call EXCEPT !.edge = Listed(@)]
    /\ UNCHANGED system

\* rotate-credential updateVariableInSet: PATCH the variable found, or POST
EdgeWriteVar ==
    LET u == call.edge IN
    /\ call.fn = "updateVariableInSet"
    /\ u.pc = "write"
    /\ call' = [call EXCEPT !.edge =
                   IF u.existingVar # 0
                   THEN Written(u, "PATCH",
                                EdgePatchPayload(u.set[u.existingVar], call.key, call.value))
                   ELSE Written(u, "POST", EdgePostPayload(call.key, call.value))]
    /\ UNCHANGED system

\* terraformCloudService.ts updateVariableInSet: getVariableSetVariables, find
ClientGetVariableSetVariables ==
    /\ call.fn = "updateVariableInSet"
    /\ call.client.pc = "list"
    /\ call' = [call EXCEPT !.client = Listed(@)]
    /\ UNCHANGED system

\* terraformCloudService.ts updateVariableInSet: PATCH the variable found, or POST
ClientWriteVar ==
    LET u == call.client
        sensitive == ClientDefaultSensitive
    IN
    /\ call.fn = "updateVariableInSet"
    /\ u.pc = "write"
    /\ call' = [call EXCEPT !.client =
                   IF u.existingVar # 0
                   THEN Written(u, "PATCH",
                                ClientPatchPayload(u.set[u.existingVar], call.key,
                                                   call.value, sensitive))
                   ELSE Written(u, "POST", ClientPostPayload(call.key, call.value, sensitive))]
    /\ UNCHANGED system

\* C39: the variable upsert of rotate-credential and the one of the client service,
\* called without its fourth argument, do the same: from the same variable set, for
\* the same key and value and the same answers of the control plane, they have issued
\* the same requests with the same payloads in the same order, they leave the same
\* variable set, and they raise the same error or none
C39_UpsertsEquivalent ==
    (call.fn = "updateVariableInSet" /\ call.edge.pc = "done" /\ call.client.pc = "done") =>
        /\ call.edge.requests = call.client.requests
        /\ call.edge.set = call.client.set
        /\ call.edge.thrown = call.client.thrown

\* both implementations found a variable of the key that was not sensitive, in
\* second place, and patched it: two requests each, the variable now sensitive with
\* the new value
C39_Witness ==
    /\ call.fn = "updateVariableInSet"
    /\ call.edge.pc = "done"
    /\ call.client.pc = "done"
    /\ call.edge.existingVar = 2
    /\ Len(call.edge.requests) = 2
    /\ call.client.requests[2].method = "PATCH"
    /\ call.client.requests[2].payload.attributes.sensitive
    /\ call.client.set[2].value = "s1"
    /\ call.client.set[2].sensitive
    /\ call.client.set[1].key # call.key

\* ------------------------------------------ specification of the library calls

InitCalls ==
    /\ SystemAtRest
    /\ \/ call \in RequestCalls
       \/ call \in GeneratorCalls("generateSecureToken", TokenChars)
       \/ call \in GeneratorCalls("generateSecurePassword", PasswordChars)
       \/ call \in GeneratorCalls("generateCertificateFingerprint", FingerprintChars)
       \/ call \in UpsertCalls

NextCalls ==
    \/ RequestFetch
    \/ RequestText
    \/ RequestJson
    \/ generateSecureToken
    \/ generateSecurePassword
    \/ generateCertificateFingerprint
    \/ EdgeListVars
    \/ EdgeWriteVar
    \/ ClientGetVariableSetVariables
    \/ ClientWriteVar

SpecCalls == InitCalls /\ [][NextCalls]_vars

====
